---- MODULE Spec2Model ----
(***************************************************************************)
(* A model of libswoc's BufferWriter formatting: the render loop           *)
(* BufferWriter::print_nv, the name bindings and registries, and           *)
(* bwprintv's grow-and-retry over a std::string (bwf_base.h); the address  *)
(* formatters (bwf_ip.h).                                                  *)
(*                                                                         *)
(* Text is a sequence of characters, a character a one-letter string.      *)
(* Parts of the library that live in bw_format.cc / BufferWriter.h (the    *)
(* tokenizer, the specifier parser, the alignment step, the integer        *)
(* formatter, the sink) are modelled from the design document; print_nv,   *)
(* the bindings, the registries, bwprintv and the address formatters are   *)
(* modelled from the headers.                                              *)
(*                                                                         *)
(* Spec is bwprintv around print_nv; SpecIP is one call of an address      *)
(* formatter; SpecInt is one call of the signed integer formatter;         *)
(* SpecNames is a ContextNames registry and its caller.                    *)
(***************************************************************************)
EXTENDS Integers, Sequences, FiniteSets, TLC

VARIABLES
    s,          \* bwprintv: the destination std::string
    w,          \* the FixedBufferWriter over s.data(): [mem, ext]
    tmpl,       \* the format string handed to bwprintv
    args,       \* the argument tuple; every argument given by its rendered text
    names_map,  \* Global_Names._map : name -> text its generator writes
    fmt,        \* print_nv: the part of the format the parser has not consumed
    arg_idx,    \* print_nv: the next argument index to be processed
    len,        \* bwprintv: the remembered initial size of s
    pc,         \* position: "idle", "render1", "render2", "done"
    calls,      \* number of bwprintv calls that returned
    prev,       \* s as the previous bwprintv call returned it
    n1,         \* extent reported by the first render of the current call
    hist,       \* per loop iteration of the current render: what was done
    ip,         \* the last call of a value formatter: its input and its sink
    reg         \* a ContextNames registry: its map, arena and binding, and its caller

vars == <<s, w, tmpl, args, names_map, fmt, arg_idx, len, pc, calls, prev, n1, hist, ip, reg>>

---------------------------------------------------------------------------
\* Bounds of the model.

\* Templates are concatenations of at most MaxPieces pieces.
MaxPieces == 2
\* The std::string starts with a size of 0 .. MaxSize.
MaxSize == 2

---------------------------------------------------------------------------
\* Program constants.

\* The default of Spec::_max, std::numeric_limits<unsigned int>::max(): no limit.
\* The value here is the largest integer TLC represents; it is only
\* ever compared with widths, all of which are far smaller.
UINT_MAX == 2147483647
\* Spec::_idx default.
NO_IDX == -1

DEFAULT_TYPE == "g"
INVALID_TYPE == "NUL"
\* Filler of std::string::resize.
NulChar == "NUL"

---------------------------------------------------------------------------
\* Text helpers.

Min2(a, b) == IF a < b THEN a ELSE b

Take(t, k) == SubSeq(t, 1, Min2(k, Len(t)))

Drop(t, k) == SubSeq(t, k + 1, Len(t))

Fill(c, k) == [i \in 1..k |-> c]

Digits == <<"0", "1", "2", "3", "4", "5", "6", "7", "8", "9">>

IsDigit(c) == \E i \in 1..10 : Digits[i] = c

DigitVal(c) == (CHOOSE i \in 1..10 : Digits[i] = c) - 1

RECURSIVE DecStr(_)
\* Decimal text of a natural number.
DecStr(k) == IF k < 10 THEN <<Digits[k + 1]>> ELSE DecStr(k \div 10) \o <<Digits[(k % 10) + 1]>>

RECURSIVE DecVal(_)
\* Value of a run of decimal digits.
DecVal(t) == IF t = <<>> THEN 0 ELSE 10 * DecVal(SubSeq(t, 1, Len(t) - 1)) + DigitVal(t[Len(t)])

\* Index of the first position of t at or after `from` whose character is in cs; 0 if none.
FindFrom(t, cs, from) ==
    IF \E i \in from..Len(t) : t[i] \in cs
    THEN CHOOSE i \in from..Len(t) : t[i] \in cs /\ \A j \in from..(i - 1) : t[j] \notin cs
    ELSE 0

\* Length of the run of digits of t starting at position `from`.
DigitRun(t, from) ==
    LET stop == IF \E i \in from..Len(t) : ~IsDigit(t[i])
                THEN CHOOSE i \in from..Len(t) : ~IsDigit(t[i]) /\ \A j \in from..(i - 1) : IsDigit(t[j])
                ELSE Len(t) + 1
    IN  stop - from

\* Whether `part` occurs in `t` as a contiguous run.
Contains(t, part) ==
    \E i \in 0..(Len(t) - Len(part)) : SubSeq(t, i + 1, i + Len(part)) = part

---------------------------------------------------------------------------
\* The bounded output sink (FixedBufferWriter): mem is the caller's buffer,
\* Len(mem) its capacity, ext the logical extent (bytes attempted).

Capacity(bw) == Len(bw.mem)

Remaining(bw) == IF bw.ext < Capacity(bw) THEN Capacity(bw) - bw.ext ELSE 0

\* The bytes the sink holds: the first min(extent, capacity) bytes of mem.
View(bw) == Take(bw.mem, bw.ext)

\* Put `bytes` at the write position, dropping what does not fit, and advance the
\* extent by k.
Commit(bw, bytes, k) ==
    [mem |-> [i \in 1..Len(bw.mem) |->
                 IF i > bw.ext /\ i <= bw.ext + Len(bytes) THEN bytes[i - bw.ext] ELSE bw.mem[i]],
     ext |-> bw.ext + k]

\* BufferWriter::write
Write(bw, bytes) == Commit(bw, bytes, Len(bytes))

\* FixedBufferWriter lw{this->aux_data(), width}: a sink over the unwritten tail.
AuxWriter(bw, width) == [mem |-> SubSeq(bw.mem, bw.ext + 1, bw.ext + width), ext |-> 0]

---------------------------------------------------------------------------
\* bwf::Spec, the parsed format specifier.

AlignChars == {"<", ">", "^", "="}

SignChars == {"+", "-", " "}

\* The characters the classifier table flags as type characters.
TypeChars == {"g", "d", "x", "X", "o", "b", "B", "s", "S", "p", "P"}

\* Spec::align_of for an alignment character.
AlignOf(c) ==
    CASE c = "<" -> "LEFT"
      [] c = ">" -> "RIGHT"
      [] c = "^" -> "CENTER"
      [] c = "=" -> "SIGN"
      [] OTHER   -> "NONE"

\* constexpr Spec(): the member initializers.
DefaultSpec ==
    [fill |-> " ", sign |-> "-", align |-> "NONE", type |-> DEFAULT_TYPE,
     radix_lead |-> FALSE, min |-> 0, prec |-> -1, max |-> UINT_MAX,
     idx |-> NO_IDX, name |-> <<>>, ext |-> <<>>]

\* The specifier a parser hands back when the format held no specifier.
ClearedSpec == [DefaultSpec EXCEPT !.type = INVALID_TYPE]

\* Faulty variant of HasValidType: every specifier counts as valid.
HasValidType_Always(spec) == TRUE

\* Spec::has_valid_type
HasValidType(spec) == spec.type # INVALID_TYPE

\* The fields after the name, [[fill]align][sign][#][min][.prec][,max][type],
\* are parsed left to right; a parse state is the specifier so far and the
\* position of the next unread character.

\* [[fill]align]
ParseAlign(st, f) ==
    LET a2 == Len(f) >= 2 /\ f[2] \in AlignChars
        a1 == ~a2 /\ Len(f) >= 1 /\ f[1] \in AlignChars
    IN  [sp  |-> [st.sp EXCEPT !.fill  = IF a2 THEN f[1] ELSE @,
                               !.align = IF a2 THEN AlignOf(f[2])
                                         ELSE IF a1 THEN AlignOf(f[1]) ELSE @],
         pos |-> IF a2 THEN 3 ELSE IF a1 THEN 2 ELSE 1]

\* [sign]
ParseSign(st, f) ==
    IF st.pos <= Len(f) /\ f[st.pos] \in SignChars
    THEN [sp |-> [st.sp EXCEPT !.sign = f[st.pos]], pos |-> st.pos + 1]
    ELSE st

\* [#]
ParseRadix(st, f) ==
    IF st.pos <= Len(f) /\ f[st.pos] = "#"
    THEN [sp |-> [st.sp EXCEPT !.radix_lead = TRUE], pos |-> st.pos + 1]
    ELSE st

\* [min_width]
ParseMin(st, f) ==
    LET k == DigitRun(f, st.pos)
    IN  IF k > 0
        THEN [sp |-> [st.sp EXCEPT !.min = DecVal(SubSeq(f, st.pos, st.pos + k - 1))],
              pos |-> st.pos + k]
        ELSE st

\* [.precision]
ParsePrec(st, f) ==
    IF st.pos <= Len(f) /\ f[st.pos] = "."
    THEN LET k == DigitRun(f, st.pos + 1)
         IN  [sp |-> [st.sp EXCEPT !.prec = IF k > 0
                                            THEN DecVal(SubSeq(f, st.pos + 1, st.pos + k))
                                            ELSE @],
              pos |-> st.pos + 1 + k]
    ELSE st

\* [,max_width]
ParseMax(st, f) ==
    IF st.pos <= Len(f) /\ f[st.pos] = ","
    THEN LET k == DigitRun(f, st.pos + 1)
         IN  [sp |-> [st.sp EXCEPT !.max = IF k > 0
                                           THEN DecVal(SubSeq(f, st.pos + 1, st.pos + k))
                                           ELSE @],
              pos |-> st.pos + 1 + k]
    ELSE st

\* [type]: a classified character; anything else marks the specifier invalid.
ParseType(st, f) ==
    IF st.pos > Len(f) THEN st.sp
    ELSE IF st.pos = Len(f) /\ f[st.pos] \in TypeChars
    THEN [st.sp EXCEPT !.type = f[st.pos]]
    ELSE [st.sp EXCEPT !.type = INVALID_TYPE]

ParseFields(sp, f) ==
    ParseType(ParseMax(ParsePrec(ParseMin(ParseRadix(ParseSign(
        ParseAlign([sp |-> sp, pos |-> 1], f), f), f), f), f), f), f)

\* Spec::Spec(TextView fmt): name-or-index [":" fields [":" extension]]
ParseSpec(body) ==
    LET c1   == FindFrom(body, {":"}, 1)
        nm   == IF c1 = 0 THEN body ELSE SubSeq(body, 1, c1 - 1)
        rest == IF c1 = 0 THEN <<>> ELSE Drop(body, c1)
        c2   == FindFrom(rest, {":"}, 1)
        f    == IF c2 = 0 THEN rest ELSE SubSeq(rest, 1, c2 - 1)
        ex   == IF c2 = 0 THEN <<>> ELSE Drop(rest, c2)
        num  == nm # <<>> /\ DigitRun(nm, 1) = Len(nm)
        s0   == [DefaultSpec EXCEPT !.name = nm,
                                    !.idx  = IF num THEN DecVal(nm) ELSE NO_IDX,
                                    !.ext  = ex]
    IN  ParseFields(s0, f)

---------------------------------------------------------------------------
\* The tokenizer.

RECURSIVE ScanLiteral(_)
\* The literal span at the front of f: plain text up to the brace that opens
\* a specifier, a doubled brace counted as one brace of plain text, a closing
\* brace nothing opened as itself.  `rest` starts at the opening brace.
ScanLiteral(f) ==
    LET off == FindFrom(f, {"{", "}"}, 1)
    IN  IF off = 0
        THEN [lit |-> f, rest |-> <<>>]
        ELSE IF off < Len(f) /\ f[off + 1] = f[off]
        THEN [lit  |-> Take(f, off) \o ScanLiteral(Drop(f, off + 1)).lit,
              rest |-> ScanLiteral(Drop(f, off + 1)).rest]
        ELSE IF f[off] = "}"
        THEN [lit  |-> Take(f, off) \o ScanLiteral(Drop(f, off)).lit,
              rest |-> ScanLiteral(Drop(f, off)).rest]
        ELSE [lit |-> Take(f, off - 1), rest |-> Drop(f, off - 1)]

\* Faulty variant of FormatParse: an opening brace that is never closed ends
\* the literal, and the text from it on is lost.
FormatParse_DropsUnbalanced(f) ==
    LET sc    == ScanLiteral(f)
        close == FindFrom(sc.rest, {"}"}, 2)
    IN  IF sc.rest = <<>> \/ close = 0
        THEN [found |-> FALSE, literal |-> sc.lit, body |-> <<>>, rest |-> <<>>]
        ELSE [found |-> TRUE, literal |-> sc.lit,
              body |-> SubSeq(sc.rest, 2, close - 1), rest |-> Drop(sc.rest, close)]

\* Format::parse(fmt, literal, spec): pull the next literal and/or specifier
\* off the front of fmt.  `found` is the return value, `rest` is fmt afterwards.
\* An opening brace that is never closed is literal text to the end of input.
FormatParse(f) ==
    LET sc    == ScanLiteral(f)
        close == FindFrom(sc.rest, {"}"}, 2)
    IN  IF sc.rest = <<>>
        THEN [found |-> FALSE, literal |-> sc.lit, body |-> <<>>, rest |-> <<>>]
        ELSE IF close = 0
        THEN [found |-> FALSE, literal |-> sc.lit \o sc.rest, body |-> <<>>, rest |-> <<>>]
        ELSE [found |-> TRUE, literal |-> sc.lit,
              body |-> SubSeq(sc.rest, 2, close - 1), rest |-> Drop(sc.rest, close)]

\* The parser functor F of print_nv: FALSE once the format is exhausted,
\* otherwise a literal, a specifier, or both; what is not found is cleared.
Extract(f) ==
    IF f = <<>>
    THEN [more |-> FALSE, found |-> FALSE, lit |-> <<>>, spec |-> ClearedSpec, rest |-> <<>>]
    ELSE LET r == FormatParse(f)
         IN  [more |-> TRUE, found |-> r.found, lit |-> r.literal,
              spec |-> IF r.found THEN ParseSpec(r.body) ELSE ClearedSpec,
              rest |-> r.rest]

---------------------------------------------------------------------------
\* Names and generators.

\* BoundNames::err_invalid_name: w.print("{{~{}~}}", spec._name)
err_invalid_name(lw, spec) == Write(lw, <<"{", "~">> \o spec.name \o <<"~", "}">>)

\* Faulty variant of BindingCall: a name the registry lacks is passed over in silence.
BindingCall_SilentMiss(map, lw, spec) ==
    IF spec.name # <<>> /\ spec.name \in DOMAIN map THEN Write(lw, map[spec.name]) ELSE lw

\* GlobalNames::Binding::operator(): look the name up, run its generator
\* (which writes its text), or report the missing name.
BindingCall(map, lw, spec) ==
    IF spec.name # <<>>
    THEN IF spec.name \in DOMAIN map
         THEN Write(lw, map[spec.name])
         ELSE err_invalid_name(lw, spec)
    ELSE lw

---------------------------------------------------------------------------
\* Formatting.

\* Err_Bad_Arg_Index(w, i, n): the diagnostic for an index past the arguments.
Err_Bad_Arg_Index(lw, i, n) ==
    Write(lw, <<"{", "~", "B", "A", "D", " ", "I", "N", "D", "E", "X", " ">> \o DecStr(i)
              \o <<" ", "o", "f", " ">> \o DecStr(n) \o <<"~", "}">>)

\* Faulty variant of Arg_Formatter: the formatter stops at the end of its buffer and
\* reports only what it stored.
Arg_Formatter_Clipped(lw, spec, a, i) == Write(lw, Take(a[i + 1], Capacity(lw)))

\* Arg_Formatter<TUPLE, I>: bwformat of the I-th argument, which writes its text.
Arg_Formatter(lw, spec, a, i) == Write(lw, a[i + 1])

\* Adjust_Alignment: copy the scratch content out to the sink, padded with the
\* fill character up to the minimum width, or clipped to the maximum width.
Adjust_Alignment(bw, spec, lw) ==
    LET raw   == View(lw)
        wlen  == lw.ext
    IN  IF wlen >= spec.min
        THEN Commit(bw, Take(raw, spec.max), Min2(wlen, spec.max))
        ELSE LET delta == spec.min - wlen
                 left  == delta \div 2
                 out   == CASE spec.align = "RIGHT"  -> Fill(spec.fill, delta) \o raw
                            [] spec.align = "CENTER" ->
                                 Fill(spec.fill, left) \o raw \o Fill(spec.fill, delta - left)
                            [] spec.align = "SIGN"   ->
                                 IF raw # <<>> /\ raw[1] \in {"+", "-"}
                                 THEN <<raw[1]>> \o Fill(spec.fill, delta) \o Tail(raw)
                                 ELSE Fill(spec.fill, delta) \o raw
                            [] OTHER -> raw \o Fill(spec.fill, delta)
             IN  Commit(bw, out, spec.min)

\* Faulty variant of WriteLiteral: a literal of a single character is dropped.
WriteLiteral_SkipShort(bw, lit) == IF Len(lit) > 1 THEN Write(bw, lit) ELSE bw

\* print_nv: the literal of an iteration goes straight to the sink.
WriteLiteral(bw, lit) == IF Len(lit) > 0 THEN Write(bw, lit) ELSE bw

\* Faulty variant of ScratchWidth: the minimum width taken for the maximum width.
ScratchWidth_UsesMin(bw, spec) == IF spec.min < Remaining(bw) THEN spec.min ELSE Remaining(bw)

\* print_nv: the scratch width, min(remaining, spec._max).
ScratchWidth(bw, spec) == IF spec.max < Remaining(bw) THEN spec.max ELSE Remaining(bw)

\* Faulty variant of ResolveIdx: the cursor is never taken, the parsed index stands.
ResolveIdx_KeepsParsed(spec, cursor) == spec.idx

\* print_nv: a specifier without a name takes the cursor as its index.
ResolveIdx(spec, cursor) == IF Len(spec.name) = 0 THEN cursor ELSE spec.idx

\* Faulty variant of Dispatch: an index past the arguments writes nothing.
Dispatch_SilentBadIndex(lw, spec, a, map) ==
    IF 0 <= spec.idx
    THEN IF spec.idx < Len(a) THEN Arg_Formatter(lw, spec, a, spec.idx) ELSE lw
    ELSE IF Len(spec.name) > 0 THEN BindingCall(map, lw, spec) ELSE lw

\* Faulty variant of Dispatch: a specifier with a name goes to the name resolver
\* even when the name is an index.
Dispatch_NameFirst(lw, spec, a, map) ==
    IF Len(spec.name) > 0 THEN BindingCall(map, lw, spec)
    ELSE IF 0 <= spec.idx
    THEN IF spec.idx < Len(a)
         THEN Arg_Formatter(lw, spec, a, spec.idx)
         ELSE Err_Bad_Arg_Index(lw, spec.idx, Len(a))
    ELSE lw

\* print_nv: render by position, or by name, into the scratch writer.
Dispatch(lw, spec, a, map) ==
    IF 0 <= spec.idx
    THEN IF spec.idx < Len(a)
         THEN Arg_Formatter(lw, spec, a, spec.idx)
         ELSE Err_Bad_Arg_Index(lw, spec.idx, Len(a))
    ELSE IF Len(spec.name) > 0
         THEN BindingCall(map, lw, spec)
         ELSE lw

\* print_nv: the cursor after a specifier, ++arg_idx inside the positional branch.
NextArgIdx(spec, cursor) == IF 0 <= spec.idx THEN cursor + 1 ELSE cursor

\* Faulty variant of AlignStep: the scratch content is committed as it is, unaligned.
AlignStep_Raw(bw, spec, lw) == IF lw.ext > 0 THEN Commit(bw, View(lw), lw.ext) ELSE bw

\* print_nv: alignment runs only when the scratch writer saw output.
AlignStep(bw, spec, lw) == IF lw.ext > 0 THEN Adjust_Alignment(bw, spec, lw) ELSE bw

\* One iteration of the while loop of print_nv, on the parser's result e.
\* The result carries the new sink, the new cursor and a record of the step.
LoopBody(bw, cursor, e, a, map) ==
    LET w1    == WriteLiteral(bw, e.lit)
        valid == HasValidType(e.spec)
        sp    == [e.spec EXCEPT !.idx = ResolveIdx(e.spec, cursor)]
        lw    == Dispatch(AuxWriter(w1, ScratchWidth(w1, sp)), sp, a, map)
        w2    == IF valid THEN AlignStep(w1, sp, lw) ELSE w1
    IN  [w       |-> w2,
         arg_idx |-> IF valid THEN NextArgIdx(sp, cursor) ELSE cursor,
         step    |-> [lit    |-> e.lit,
                      found  |-> e.found,
                      parsed |-> e.spec,
                      spec   |-> IF valid THEN sp ELSE e.spec,
                      valid  |-> valid,
                      cursor |-> cursor,
                      next   |-> IF valid THEN NextArgIdx(sp, cursor) ELSE cursor,
                      lw     |-> IF valid THEN lw ELSE [mem |-> <<>>, ext |-> 0],
                      from   |-> bw.ext,
                      start  |-> w1.ext,
                      stop   |-> w2.ext,
                      rest   |-> e.rest]]

RECURSIVE print_nv(_, _, _, _, _)
\* BufferWriter::print_nv as a whole: the loop run until the parser reports
\* the format exhausted; the result is the sink.
print_nv(bw, cursor, f, a, map) ==
    IF ~Extract(f).more THEN bw
    ELSE print_nv(LoopBody(bw, cursor, Extract(f), a, map).w,
                  LoopBody(bw, cursor, Extract(f), a, map).arg_idx,
                  Extract(f).rest, a, map)

---------------------------------------------------------------------------
\* The precompiled format.

\* Format::Format_Literal: the literal of an item is kept in its extension
\* and written as it is.
Format_Literal(lw, spec) == Write(lw, spec.ext)

\* The items a literal and a specifier of the format compile to: a literal
\* item when there is literal text, then the specifier with the index the
\* cursor gives it when it has no name, and the generator of its name when
\* the registry has one.
CompileItems(e, cursor, map) ==
    (IF e.lit # <<>>
     THEN << [spec |-> [DefaultSpec EXCEPT !.ext = e.lit], gf |-> "literal"] >>
     ELSE <<>>)
    \o (IF e.found
        THEN << [spec |-> [e.spec EXCEPT !.idx = ResolveIdx(e.spec, cursor)],
                 gf   |-> IF e.spec.name # <<>> /\ e.spec.idx = NO_IDX
                             /\ e.spec.name \in DOMAIN map
                          THEN "generator" ELSE "none"] >>
        ELSE <<>>)

RECURSIVE Compile(_, _, _)
\* Format::Format: the format string compiled to its items, in order.
Compile(f, cursor, map) ==
    IF ~Extract(f).more THEN <<>>
    ELSE CompileItems(Extract(f), cursor, map)
         \o Compile(Extract(f).rest,
                    IF Extract(f).found
                    THEN NextArgIdx([Extract(f).spec EXCEPT
                                        !.idx = ResolveIdx(Extract(f).spec, cursor)], cursor)
                    ELSE cursor,
                    map)

\* bwf::Do_Alignment: the scratch content goes to the sink, aligned.
Do_Alignment(spec, bw, lw) == Adjust_Alignment(bw, spec, lw)

\* printv: what one item renders into the scratch writer: its generator, or
\* the argument of its index when that is in range, or the marker of its
\* name when it has one.
ItemDispatch(lw, item, a, map) ==
    IF item.gf = "literal" THEN Format_Literal(lw, item.spec)
    ELSE IF item.gf = "generator" THEN Write(lw, map[item.spec.name])
    ELSE IF 0 <= item.spec.idx /\ item.spec.idx < Len(a)
    THEN Arg_Formatter(lw, item.spec, a, item.spec.idx)
    ELSE IF Len(item.spec.name) > 0
    THEN Write(lw, <<"{", "~">> \o item.spec.name \o <<"~", "}">>)
    ELSE lw

\* printv: the body of the loop for one item.
ItemBody(bw, item, a, map) ==
    Do_Alignment(item.spec, bw,
                 ItemDispatch(AuxWriter(bw, ScratchWidth(bw, item.spec)), item, a, map))

RECURSIVE printv(_, _, _, _)
\* BufferWriter::printv(BWFormat const &, tuple): every item in order.
printv(bw, items, a, map) ==
    IF items = <<>> THEN bw
    ELSE printv(ItemBody(bw, Head(items), a, map), Tail(items), a, map)

---------------------------------------------------------------------------
\* The inputs the model draws from.

\* Building blocks of format strings: literal text, escaped braces, and
\* specifiers by cursor, by index, by name, with widths, alignments and types.
Pieces ==
    { <<"a">>,
      <<"{", "{">>,
      <<"}", "}">>,
      <<"{">>,
      <<"{", "}">>,
      <<"{", "0", "}">>,
      <<"{", "1", "}">>,
      <<"{", "5", "}">>,
      <<"{", "n", "}">>,
      <<"{", "z", "z", "}">>,
      <<"{", ":", "<", "4", "}">>,
      <<"{", ":", ">", "4", "}">>,
      <<"{", ":", "^", "4", "}">>,
      <<"{", ":", "*", ">", "3", "}">>,
      <<"{", ":", "0", "=", "4", "}">>,
      <<"{", ":", ",", "2", "}">>,
      <<"{", ":", "q", "}">> }

RECURSIVE Concats(_)
\* All concatenations of at most k pieces.
Concats(k) ==
    IF k = 0 THEN {<<>>}
    ELSE LET shorter == Concats(k - 1)
         IN  shorter \cup {t \o p : t \in shorter, p \in Pieces}

Templates == Concats(MaxPieces)

\* Argument tuples, each argument given by the text its formatter writes.
ArgLists ==
    { << <<"a", "b", "c">>, <<"-", "7">> >>,
      << <<>>, <<"x">> >>,
      << <<"-", "7">> >>,
      << <<"a", "b", "c">> >> }

\* The registry: one name, with the text its generator writes.
Registry == (<<"n">> :> <<"N", "V">>)

\* The std::string before the call: any size up to MaxSize, old content.
Strings == {Fill("?", k) : k \in 0..MaxSize}

\* A ContextNames registry as constructed, and its caller: an empty map and
\* arena, a binding with no context, no resolver handed out; the caller's
\* name buffer; what the last call of a resolver did.
NewRegistry ==
    [map |-> <<>>, arena |-> <<>>, ctx |-> "nullptr", held |-> <<>>,
     buf |-> <<"a", "b">>, log |-> <<>>, last |-> [gen |-> "none"]]

\* No address formatter has been called.
NoCall == [kind |-> "none"]

---------------------------------------------------------------------------
\* The state machine.

Init ==
    /\ s \in Strings
    /\ tmpl \in Templates
    /\ args \in ArgLists
    /\ names_map = Registry
    /\ w = [mem |-> <<>>, ext |-> 0]
    /\ fmt = <<>>
    /\ arg_idx = 0
    /\ len = 0
    /\ pc = "idle"
    /\ calls = 0
    /\ prev = <<>>
    /\ n1 = 0
    /\ hist = <<>>
    /\ ip = NoCall
    /\ reg = NewRegistry

\* std::string::resize
Resize(str, k) == IF k <= Len(str) THEN Take(str, k) ELSE str \o Fill(NulChar, k - Len(str))

\* bwprintv, up to the first render: remember the size, wrap s.data() in a
\* FixedBufferWriter of that capacity and start printing.
BwprintvCall ==
    /\ pc = "idle" \/ (pc = "done" /\ calls < 2)
    /\ len' = Len(s)
    /\ w' = [mem |-> s, ext |-> 0]
    /\ fmt' = tmpl
    /\ arg_idx' = 0
    /\ hist' = <<>>
    /\ prev' = s
    /\ pc' = "render1"
    /\ UNCHANGED <<s, tmpl, args, names_map, calls, n1, ip, reg>>

\* print_nv: one iteration of the loop, the parser having returned true.
PrintStep ==
    /\ pc \in {"render1", "render2"}
    /\ Extract(fmt).more
    /\ LET e == Extract(fmt)
           r == LoopBody(w, arg_idx, e, args, names_map)
       IN  /\ w' = r.w
           /\ s' = r.w.mem
           /\ arg_idx' = r.arg_idx
           /\ fmt' = e.rest
           /\ hist' = Append(hist, r.step)
    /\ UNCHANGED <<tmpl, args, names_map, len, pc, calls, prev, n1, ip, reg>>

\* Faulty variant of BwprintvResize: s is resized only to grow, never to clip.
BwprintvResize_GrowOnly ==
    /\ pc = "render1"
    /\ ~Extract(fmt).more
    /\ n1' = w.ext
    /\ s' = IF w.ext > len THEN Resize(s, w.ext) ELSE s
    /\ IF w.ext > len
       THEN /\ pc' = "render2"
            /\ w' = [mem |-> s', ext |-> 0]
            /\ fmt' = tmpl
            /\ arg_idx' = 0
            /\ hist' = <<>>
            /\ UNCHANGED calls
       ELSE /\ pc' = "done"
            /\ calls' = calls + 1
            /\ UNCHANGED <<w, fmt, arg_idx, hist>>
    /\ UNCHANGED <<tmpl, args, names_map, len, prev, ip, reg>>

\* bwprintv after the first render: resize to the extent; render again when
\* the extent exceeded the initial size.
BwprintvResize ==
    /\ pc = "render1"
    /\ ~Extract(fmt).more
    /\ n1' = w.ext
    /\ s' = Resize(s, w.ext)
    /\ IF w.ext > len
       THEN /\ pc' = "render2"
            /\ w' = [mem |-> s', ext |-> 0]
            /\ fmt' = tmpl
            /\ arg_idx' = 0
            /\ hist' = <<>>
            /\ UNCHANGED calls
       ELSE /\ pc' = "done"
            /\ calls' = calls + 1
            /\ UNCHANGED <<w, fmt, arg_idx, hist>>
    /\ UNCHANGED <<tmpl, args, names_map, len, prev, ip, reg>>

\* bwprintv after the second render: return s.
BwprintvReturn ==
    /\ pc = "render2"
    /\ ~Extract(fmt).more
    /\ pc' = "done"
    /\ calls' = calls + 1
    /\ UNCHANGED <<s, w, tmpl, args, names_map, fmt, arg_idx, len, prev, n1, hist, ip, reg>>

Next == BwprintvCall \/ PrintStep \/ BwprintvResize \/ BwprintvReturn

Spec == Init /\ [][Next]_vars

---------------------------------------------------------------------------
\* Integer rendering, as the address formatters use it.

\* The type characters the classifier table flags as numeric.
NumericTypeChars == {"d", "x", "X", "o", "b", "B"}

\* Spec::has_numeric_type
has_numeric_type(spec) == spec.type \in NumericTypeChars

LowerDigits == <<"0", "1", "2", "3", "4", "5", "6", "7", "8", "9", "a", "b", "c", "d", "e", "f">>

UpperDigits == <<"0", "1", "2", "3", "4", "5", "6", "7", "8", "9", "A", "B", "C", "D", "E", "F">>

RECURSIVE RadixStr(_, _, _)
\* The digits of k in the given base, most significant first.
RadixStr(k, base, digits) ==
    IF k < base THEN <<digits[k + 1]>>
    ELSE RadixStr(k \div base, base, digits) \o <<digits[(k % base) + 1]>>

\* The digits Format_Integer renders for the type character.
IntegerDigits(spec, k) ==
    CASE spec.type = "x" -> RadixStr(k, 16, LowerDigits)
      [] spec.type = "X" -> RadixStr(k, 16, UpperDigits)
      [] spec.type = "o" -> RadixStr(k, 8, LowerDigits)
      [] spec.type \in {"b", "B"} -> RadixStr(k, 2, LowerDigits)
      [] OTHER -> RadixStr(k, 10, LowerDigits)

\* The radix lead Format_Integer puts before the digits when # asks for it.
RadixLead(spec) ==
    IF ~spec.radix_lead THEN <<>>
    ELSE CASE spec.type = "x" -> <<"0", "x">>
           [] spec.type = "X" -> <<"0", "X">>
           [] spec.type = "o" -> <<"0">>
           [] spec.type = "b" -> <<"0", "b">>
           [] spec.type = "B" -> <<"0", "B">>
           [] OTHER -> <<>>

\* The sign Format_Integer renders.
IntegerSign(spec, neg) ==
    IF neg THEN <<"-">> ELSE IF spec.sign = "-" THEN <<>> ELSE <<spec.sign>>

\* Format_Integer(w, spec, n, negative): sign, radix lead and digits, passed
\* through the alignment step.
Format_Integer(bw, spec, k, neg) ==
    Adjust_Alignment(bw, spec,
        [mem |-> IntegerSign(spec, neg) \o RadixLead(spec) \o IntegerDigits(spec, k),
         ext |-> Len(IntegerSign(spec, neg) \o RadixLead(spec) \o IntegerDigits(spec, k))])

\* bwformat for an unsigned integral type.
bwformat_unsigned(bw, spec, k) == Format_Integer(bw, spec, k, FALSE)

---------------------------------------------------------------------------
\* Address formatting (bwf_ip.h).

\* The extension asks for aligned elements: "=" first, or a fill character and "=".
AlignRequested(spec) ==
    Len(spec.ext) > 0 /\ (spec.ext[1] = "=" \/ (Len(spec.ext) > 1 /\ spec.ext[2] = "="))

\* The fill of the elements: "0" for a bare "=", else the character before "=".
ElementFill(spec) ==
    IF Len(spec.ext) > 0 /\ spec.ext[1] = "=" THEN "0"
    ELSE IF Len(spec.ext) > 1 /\ spec.ext[2] = "=" THEN spec.ext[1]
    ELSE spec.fill

\* Faulty variant of ElementSpec: without the "=" form the caller's minimum width stays.
ElementSpec_KeepsMin(spec, width) ==
    [spec EXCEPT !.fill  = ElementFill(spec),
                 !.min   = IF AlignRequested(spec) THEN width ELSE @,
                 !.align = IF AlignRequested(spec) THEN "RIGHT" ELSE @]

\* local_spec of the address formatters: the caller's specifier with the
\* elements' fill, alignment and width.
ElementSpec(spec, width) ==
    [spec EXCEPT !.fill  = ElementFill(spec),
                 !.min   = IF AlignRequested(spec) THEN width ELSE 0,
                 !.align = IF AlignRequested(spec) THEN "RIGHT" ELSE @]

\* bwformat(w, spec, IP4Addr): the four octets of the host-order value, most
\* significant first (host >> 24, >> 16, >> 8, >> 0), with dots between.
\* The address is given by these octets.
bwformat_IP4Addr(bw, spec, octets) ==
    bwformat_unsigned(Write(
    bwformat_unsigned(Write(
    bwformat_unsigned(Write(
    bwformat_unsigned(bw, ElementSpec(spec, 3), octets[1]), <<".">>),
                          ElementSpec(spec, 3), octets[2]), <<".">>),
                          ElementSpec(spec, 3), octets[3]), <<".">>),
                          ElementSpec(spec, 3), octets[4])

\* The number of 16 bit groups of an in6_addr, sizeof(s6_addr) / sizeof(QUAD).
QuadCount == 8

\* A null QUAD pointer; groups are counted from 0.
NullQuad == -1

RECURSIVE ScanZeroRange_LastWins(_, _, _, _, _)
\* Faulty variant of ScanZeroRange: a later run of the same length replaces the best.
ScanZeroRange_LastWins(addr, spot, current, lower, upper) ==
    IF spot >= QuadCount THEN [lower |-> lower, upper |-> upper]
    ELSE IF addr[spot + 1] = 0
    THEN IF current # NullQuad
         THEN IF lower = NullQuad \/ (upper - lower <= spot - current)
              THEN ScanZeroRange_LastWins(addr, spot + 1, current, current, spot)
              ELSE ScanZeroRange_LastWins(addr, spot + 1, current, lower, upper)
         ELSE ScanZeroRange_LastWins(addr, spot + 1, spot, lower, upper)
    ELSE ScanZeroRange_LastWins(addr, spot + 1, NullQuad, lower, upper)

RECURSIVE ScanZeroRange(_, _, _, _, _)
\* The loop that looks for the best zero range: `spot` walks the groups,
\* `current` is where the zero run at hand began.  The result is [lower, upper].
ScanZeroRange(addr, spot, current, lower, upper) ==
    IF spot >= QuadCount THEN [lower |-> lower, upper |-> upper]
    ELSE IF addr[spot + 1] = 0
    THEN IF current # NullQuad
         THEN IF lower = NullQuad \/ (upper - lower < spot - current)
              THEN ScanZeroRange(addr, spot + 1, current, current, spot)
              ELSE ScanZeroRange(addr, spot + 1, current, lower, upper)
         ELSE ScanZeroRange(addr, spot + 1, spot, lower, upper)
    ELSE ScanZeroRange(addr, spot + 1, NullQuad, lower, upper)

\* Faulty variant of ZeroRange: the scan runs whatever the extension.
ZeroRange_AlwaysScans(spec, addr) == ScanZeroRange(addr, 0, NullQuad, NullQuad, NullQuad)

\* The best zero range: none when the elements are aligned.
ZeroRange(spec, addr) ==
    IF AlignRequested(spec)
    THEN [lower |-> NullQuad, upper |-> NullQuad]
    ELSE ScanZeroRange(addr, 0, NullQuad, NullQuad, NullQuad)

\* The type of the groups: hexadecimal unless a numeric type was asked for.
QuadSpec(spec) ==
    [ElementSpec(spec, 4) EXCEPT !.type = IF has_numeric_type(spec) THEN @ ELSE "x"]

\* Faulty variant of EmitQuad: a zero range at the first group gets no colon of its own.
EmitQuad_NoLeadingColon(bw, spec, addr, q, r) ==
    IF r.lower <= q /\ q <= r.upper
    THEN Write(bw, IF q = r.upper THEN <<":">> ELSE <<>>)
    ELSE Write(bwformat_unsigned(bw, QuadSpec(spec), addr[q + 1]),
               IF q # QuadCount - 1 THEN <<":">> ELSE <<>>)

\* One pass of the output loop, for group q.
EmitQuad(bw, spec, addr, q, r) ==
    IF r.lower <= q /\ q <= r.upper
    THEN Write(Write(bw, IF q = 0 THEN <<":">> ELSE <<>>),
               IF q = r.upper THEN <<":">> ELSE <<>>)
    ELSE Write(bwformat_unsigned(bw, QuadSpec(spec), addr[q + 1]),
               IF q # QuadCount - 1 THEN <<":">> ELSE <<>>)

RECURSIVE EmitQuads(_, _, _, _, _)
\* The output loop from group q on.
EmitQuads(bw, spec, addr, q, r) ==
    IF q >= QuadCount THEN bw
    ELSE EmitQuads(EmitQuad(bw, spec, addr, q, r), spec, addr, q + 1, r)

\* bwformat(w, spec, in6_addr): the address is given by its eight groups,
\* each (ptr[0] << 8) + ptr[1].
bwformat_in6_addr(bw, spec, addr) == EmitQuads(bw, spec, addr, 0, ZeroRange(spec, addr))

\* The address families the formatters tell apart, and one they do not know.
Families == {"AF_UNSPEC", "AF_UNIX", "AF_INET", "AF_INET6", "AF_PACKET"}

\* The numeric value of a family (sa_family_t).
FamilyTag(family) ==
    CASE family = "AF_UNSPEC" -> 0
      [] family = "AF_UNIX"   -> 1
      [] family = "AF_INET"   -> 2
      [] family = "AF_INET6"  -> 10
      [] OTHER                -> 17

\* family_name
family_name(family) ==
    CASE family = "AF_INET"   -> <<"i", "p", "v", "4">>
      [] family = "AF_INET6"  -> <<"i", "p", "v", "6">>
      [] family = "AF_UNIX"   -> <<"u", "n", "i", "x">>
      [] family = "AF_UNSPEC" -> <<"u", "n", "s", "p", "e", "c">>
      [] OTHER                -> <<"u", "n", "k", "n", "o", "w", "n">>

\* w.print("*Not IP address [{}]*", family)
NotIPAddress(bw, family) ==
    Write(bw, <<"*", "N", "o", "t", " ", "I", "P", " ", "a", "d", "d", "r", "e", "s", "s", " ", "[">>
              \o RadixStr(FamilyTag(family), 10, LowerDigits) \o <<"]", "*">>)

\* The extension without its "=" or "<fill>=" prefix: the flag characters.
FlagChars(spec) ==
    IF Len(spec.ext) > 0 /\ spec.ext[1] = "=" THEN Drop(spec.ext, 1)
    ELSE IF Len(spec.ext) > 1 /\ spec.ext[2] = "=" THEN Drop(spec.ext, 2)
    ELSE spec.ext

\* Whether one of the characters cs is among the flag characters.
HasFlag(spec, cs) == \E i \in 1..Len(FlagChars(spec)) : FlagChars(spec)[i] \in cs

\* Faulty variant of EndpointFlags: flag characters only add to the default parts.
EndpointFlags_KeepsDefaults(spec) ==
    [addr_p   |-> TRUE,
     port_p   |-> TRUE,
     family_p |-> HasFlag(spec, {"f", "F"})]

\* addr_p, port_p, family_p of the sockaddr formatter: address and port when
\* there are no flag characters, else what the characters name.
EndpointFlags(spec) ==
    IF Len(FlagChars(spec)) = 0
    THEN [addr_p |-> TRUE, port_p |-> TRUE, family_p |-> FALSE]
    ELSE [addr_p   |-> HasFlag(spec, {"a", "A"}),
          port_p   |-> HasFlag(spec, {"p", "P"}),
          family_p |-> HasFlag(spec, {"f", "F"})]

\* local_spec for the port: width 5, right aligned, with the numeric fill,
\* when the extension has the "=" prefix.
PortSpec(spec) ==
    IF AlignRequested(spec)
    THEN [spec EXCEPT !.min = 5, !.fill = ElementFill(spec), !.align = "RIGHT",
                      !.ext = FlagChars(spec)]
    ELSE [spec EXCEPT !.min = 0, !.ext = FlagChars(spec)]

\* Faulty variant of EndpointFamily: the family is rendered as a number whatever the type.
EndpointFamily_AlwaysNumeric(bw, spec, ep, fl) ==
    IF ~fl.family_p THEN bw
    ELSE bwformat_unsigned(Write(bw, IF fl.addr_p \/ fl.port_p THEN <<" ">> ELSE <<>>),
                           [spec EXCEPT !.min = 0], FamilyTag(ep.family))

\* The family sub-part: a space after an earlier sub-part, then the numeric
\* value for a numeric type, else the family's name.
EndpointFamily(bw, spec, ep, fl) ==
    IF ~fl.family_p THEN bw
    ELSE IF has_numeric_type(spec)
    THEN bwformat_unsigned(Write(bw, IF fl.addr_p \/ fl.port_p THEN <<" ">> ELSE <<>>),
                           [(IF fl.port_p THEN PortSpec(spec) ELSE spec)
                               EXCEPT !.min = 0, !.ext = FlagChars(spec)],
                           FamilyTag(ep.family))
    ELSE Write(Write(bw, IF fl.addr_p \/ fl.port_p THEN <<" ">> ELSE <<>>),
               Take(family_name(ep.family), spec.max))

\* The port sub-part.
EndpointPort(bw, spec, ep, fl) ==
    IF fl.port_p THEN bwformat_unsigned(bw, PortSpec(spec), ep.port) ELSE bw

\* Faulty variant of EndpointAddrText: an IPv6 address is always put in brackets.
EndpointAddrText_AlwaysBrackets(bw, spec, ep, fl) ==
    CASE ep.family = "AF_INET"  -> bwformat_IP4Addr(bw, spec, ep.ip4)
      [] ep.family = "AF_INET6" -> Write(bwformat_in6_addr(Write(bw, <<"[">>), spec, ep.ip6), <<"]">>)
      [] OTHER -> NotIPAddress(bw, ep.family)

\* The address by family, in brackets for IPv6 when the port follows.
EndpointAddrText(bw, spec, ep, fl) ==
    CASE ep.family = "AF_INET"  -> bwformat_IP4Addr(bw, spec, ep.ip4)
      [] ep.family = "AF_INET6" ->
             Write(bwformat_in6_addr(Write(bw, IF fl.port_p THEN <<"[">> ELSE <<>>), spec, ep.ip6),
                   IF fl.port_p THEN <<"]">> ELSE <<>>)
      [] OTHER -> NotIPAddress(bw, ep.family)

\* The address sub-part, with the colon before the port.
EndpointAddr(bw, spec, ep, fl) ==
    IF fl.addr_p
    THEN Write(EndpointAddrText(bw, spec, ep, fl), IF fl.port_p THEN <<":">> ELSE <<>>)
    ELSE bw

\* bwformat(w, spec, sockaddr const *): a pointer type renders the pointer
\* itself (shown as one token), otherwise address, port and family as flagged.
bwformat_sockaddr(bw, spec, ep) ==
    IF spec.type \in {"p", "P"} THEN Write(bw, <<"PTR">>)
    ELSE EndpointFamily(EndpointPort(EndpointAddr(bw, spec, ep, EndpointFlags(spec)),
                                     spec, ep, EndpointFlags(spec)),
                        spec, ep, EndpointFlags(spec))

\* addr_p, family_p of the IPAddr formatter: the address when there are no
\* flag characters.
IPAddrFlags(spec) ==
    IF Len(FlagChars(spec)) = 0
    THEN [addr_p |-> TRUE, port_p |-> FALSE, family_p |-> FALSE]
    ELSE [addr_p   |-> HasFlag(spec, {"a", "A"}),
          port_p   |-> FALSE,
          family_p |-> HasFlag(spec, {"f", "F"})]

\* The address sub-part of an IPAddr.
IPAddrText(bw, spec, ep, fl) ==
    IF ~fl.addr_p THEN bw
    ELSE CASE ep.family = "AF_INET"  -> bwformat_IP4Addr(bw, spec, ep.ip4)
           [] ep.family = "AF_INET6" -> bwformat_in6_addr(bw, spec, ep.ip6)
           [] OTHER -> NotIPAddress(bw, ep.family)

\* The family sub-part of an IPAddr: the family value goes to the integer
\* formatter whatever the type.
IPAddrFamily(bw, spec, ep, fl) ==
    IF ~fl.family_p THEN bw
    ELSE bwformat_unsigned(Write(bw, IF fl.addr_p THEN <<" ">> ELSE <<>>),
                           [spec EXCEPT !.min = 0, !.ext = FlagChars(spec)], FamilyTag(ep.family))

\* bwformat(w, spec, IPAddr)
bwformat_IPAddr(bw, spec, ep) ==
    IPAddrFamily(IPAddrText(bw, spec, ep, IPAddrFlags(spec)), spec, ep, IPAddrFlags(spec))

---------------------------------------------------------------------------
\* The address formatters called on their own: one call per behaviour, on a
\* sink with room for the whole output.

\* Capacity of the sink the address formatters write to.
IPBufSize == 64

EmptySink == [mem |-> Fill(NulChar, IPBufSize), ext |-> 0]

\* The specifier of a call: a type, an outer minimum width and an extension.
IPSpec(type, min, ext) == [DefaultSpec EXCEPT !.type = type, !.min = min, !.ext = ext]

IPTypes == {"g", "d", "x", "X"}

\* Extensions of the address formatters: none, zero fill, a fill character.
ElementExts == {<<>>, <<"=">>, <<"*", "=">>}

Addrs4 ==
    { <<1, 2, 3, 4>>, <<192, 0, 2, 1>>, <<0, 0, 0, 0>>, <<255, 255, 255, 255>>, <<10, 99, 100, 9>> }

\* 16-byte addresses by their groups: every pattern of zero and non-zero
\* groups (0xdb8 for non-zero), and some addresses of note.
Addrs6 ==
    [1..QuadCount -> {0, 3512}]
        \cup { <<8193, 0, 0, 0, 0, 0, 0, 1>>,
               <<8193, 3512, 0, 0, 0, 0, 0, 1>>,
               <<8193, 0, 0, 171, 0, 0, 43981, 1>>,
               <<1, 2, 3, 4, 5, 6, 7, 8>> }

RECURSIVE FlagStrings(_)
\* The strings of at most k flag characters.
FlagStrings(k) ==
    IF k = 0 THEN {<<>>}
    ELSE FlagStrings(k - 1) \cup {f \o <<c>> : f \in FlagStrings(k - 1), c \in {"a", "p", "f"}}

\* Extensions of the endpoint formatters: flags, some with a fill prefix, some upper case.
EndpointExts ==
    FlagStrings(3)
        \cup {<<"=">> \o f : f \in FlagStrings(1)}
        \cup { <<"=", "a", "p">>, <<"*", "=">>, <<"*", "=", "p">>, <<"*", "=", "a", "p", "f">>,
               <<"A", "P">>, <<"F">>, <<"P", "a">> }

\* Socket addresses: family, address and port.
Endpoints ==
    [family : {"AF_INET"}, ip4 : {<<192, 0, 2, 1>>, <<1, 2, 3, 4>>},
     ip6 : {<<0, 0, 0, 0, 0, 0, 0, 0>>}, port : {80, 0, 65535}]
        \cup [family : {"AF_INET6"}, ip4 : {<<0, 0, 0, 0>>},
              ip6 : {<<8193, 3512, 0, 0, 0, 0, 0, 1>>, <<0, 0, 0, 0, 0, 0, 0, 0>>}, port : {80, 8080}]
        \cup [family : {"AF_UNIX", "AF_UNSPEC", "AF_PACKET"}, ip4 : {<<0, 0, 0, 0>>},
              ip6 : {<<0, 0, 0, 0, 0, 0, 0, 0>>}, port : {80}]

InitIP ==
    /\ s = <<>>
    /\ tmpl = <<>>
    /\ args = <<>>
    /\ names_map = Registry
    /\ w = [mem |-> <<>>, ext |-> 0]
    /\ fmt = <<>>
    /\ arg_idx = 0
    /\ len = 0
    /\ pc = "idle"
    /\ calls = 0
    /\ prev = <<>>
    /\ n1 = 0
    /\ hist = <<>>
    /\ ip = NoCall
    /\ reg = NewRegistry

\* A call of bwformat(w, spec, IP4Addr const &).
FormatIP4 ==
    /\ ip.kind = "none"
    /\ \E a \in Addrs4, ty \in IPTypes, m \in {0, 7}, e \in ElementExts :
          ip' = [kind |-> "ip4", spec |-> IPSpec(ty, m, e), val |-> a,
                 out  |-> bwformat_IP4Addr(EmptySink, IPSpec(ty, m, e), a)]
    /\ UNCHANGED <<s, w, tmpl, args, names_map, fmt, arg_idx, len, pc, calls, prev, n1, hist, reg>>

\* A call of bwformat(w, spec, in6_addr const &).
FormatIP6 ==
    /\ ip.kind = "none"
    /\ \E a \in Addrs6, ty \in IPTypes, e \in ElementExts :
          ip' = [kind |-> "ip6", spec |-> IPSpec(ty, 0, e), val |-> a,
                 out  |-> bwformat_in6_addr(EmptySink, IPSpec(ty, 0, e), a)]
    /\ UNCHANGED <<s, w, tmpl, args, names_map, fmt, arg_idx, len, pc, calls, prev, n1, hist, reg>>

\* A call of bwformat(w, spec, sockaddr const *).
FormatSockaddr ==
    /\ ip.kind = "none"
    /\ \E ep \in Endpoints, ty \in {"g", "x", "d"}, e \in EndpointExts :
          ip' = [kind |-> "sockaddr", spec |-> IPSpec(ty, 0, e), val |-> ep,
                 out  |-> bwformat_sockaddr(EmptySink, IPSpec(ty, 0, e), ep)]
    /\ UNCHANGED <<s, w, tmpl, args, names_map, fmt, arg_idx, len, pc, calls, prev, n1, hist, reg>>

\* A call of bwformat(w, spec, IPAddr const &).
FormatIPAddr ==
    /\ ip.kind = "none"
    /\ \E ep \in Endpoints, ty \in {"g", "x", "d"}, e \in EndpointExts :
          ip' = [kind |-> "ipaddr", spec |-> IPSpec(ty, 0, e), val |-> ep,
                 out  |-> bwformat_IPAddr(EmptySink, IPSpec(ty, 0, e), ep)]
    /\ UNCHANGED <<s, w, tmpl, args, names_map, fmt, arg_idx, len, pc, calls, prev, n1, hist, reg>>

NextIP == FormatIP4 \/ FormatIP6 \/ FormatSockaddr \/ FormatIPAddr

SpecIP == InitIP /\ [][NextIP]_vars

---------------------------------------------------------------------------
\* The signed integer formatter.  The widths of the integer types are scaled
\* down, keeping their order: a type narrower than int, int, and intmax_t,
\* which is as wide as the uintmax_t that Format_Integer takes.

NarrowBits == 4

IntBits == 8

MaxBits == 16

SignedTypes == {"signed char", "int", "intmax_t"}

TypeBits(T) ==
    CASE T = "signed char" -> NarrowBits
      [] T = "int"         -> IntBits
      [] OTHER             -> MaxBits

\* The least and the greatest value of a signed type of the width.
MinOf(bits) == -(2 ^ (bits - 1))

MaxOf(bits) == 2 ^ (bits - 1) - 1

\* Values of a type: its ends, their neighbours, and the values about zero.
ValuesOf(T) ==
    {MinOf(TypeBits(T)), MinOf(TypeBits(T)) + 1, -2, -1, 0, 1, 2,
     MaxOf(TypeBits(T)) - 1, MaxOf(TypeBits(T))}

\* The type -i is computed in: the operand after integral promotion.
PromotedBits(T) == IF TypeBits(T) < IntBits THEN IntBits ELSE TypeBits(T)

\* A value wrapped into the signed type of the width.
Wrap(v, bits) == ((v + 2 ^ (bits - 1)) % (2 ^ bits)) - 2 ^ (bits - 1)

\* -i in a signed type of the width.  When the result does not fit the
\* behaviour is undefined: the value wraps, or the negation traps.
Negate(i, bits) ==
    IF -i <= MaxOf(bits)
    THEN {[trap |-> FALSE, v |-> -i]}
    ELSE {[trap |-> FALSE, v |-> Wrap(-i, bits)], [trap |-> TRUE, v |-> 0]}

\* The conversion of a signed value to the uintmax_t parameter.
ToUintmax(v) == v % (2 ^ MaxBits)

\* bwformat(w, spec, I &&i) for a signed integral I:
\* i < 0 ? Format_Integer(w, spec, -i, true) : Format_Integer(w, spec, i, false).
\* The result records what Format_Integer was handed, and the sink.
bwformat_signed(bw, spec, T, i, o) ==
    IF i < 0
    THEN IF o.trap
         THEN [trapped |-> TRUE, n |-> -1, neg |-> TRUE, out |-> bw]
         ELSE [trapped |-> FALSE, n |-> ToUintmax(o.v), neg |-> TRUE,
               out |-> Format_Integer(bw, spec, ToUintmax(o.v), TRUE)]
    ELSE [trapped |-> FALSE, n |-> ToUintmax(i), neg |-> FALSE,
          out |-> Format_Integer(bw, spec, ToUintmax(i), FALSE)]

\* A call of the signed integer formatter.
FormatSigned ==
    /\ ip.kind = "none"
    /\ \E T \in SignedTypes, ty \in {"g", "d", "x"}, m \in {0, 6} :
          \E i \in ValuesOf(T) :
             \E o \in Negate(IF i < 0 THEN i ELSE 0, PromotedBits(T)) :
                ip' = [kind |-> "signed", spec |-> IPSpec(ty, m, <<>>),
                       val  |-> [type |-> T, i |-> i],
                       call |-> bwformat_signed(EmptySink, IPSpec(ty, m, <<>>), T, i, o)]
    /\ UNCHANGED <<s, w, tmpl, args, names_map, fmt, arg_idx, len, pc, calls, prev, n1, hist, reg>>

NextInt == FormatSigned

SpecInt == InitIP /\ [][NextInt]_vars

---------------------------------------------------------------------------
\* ContextNames<T>: a registry of generators that take a context.  A
\* std::string_view is [mem, off, len]: a span of the registry's arena or of
\* the caller's buffer.

\* The assign calls of a behaviour.
MaxAssigns == 2
\* The bind calls of a behaviour.
MaxBinds == 2

ContextIds == {"c1", "c2"}

GeneratorIds == {"g1", "g2"}

\* What the caller's name buffer may hold: a name, or ?? once it is
\* overwritten or freed.
BufContents == {<<"a", "b">>, <<"?", "?">>}

\* The names a resolver is asked for.
ResolveNames == {<<"a">>, <<"a", "b">>, <<"b">>}

\* The characters a string_view shows now.
Deref(r, v) ==
    IF v.mem = "arena" THEN SubSeq(r.arena, v.off + 1, v.off + v.len)
    ELSE SubSeq(r.buf, v.off + 1, v.off + v.len)

\* Faulty variant of localize: the view of the caller's memory is handed back as it is.
localize_Borrowed(r, name) == [arena |-> r.arena, view |-> name]

\* Generators::localize: allocate name.size() bytes in the arena, copy the
\* name there and return a view of the copy.
localize(r, name) ==
    [arena |-> r.arena \o Deref(r, name),
     view  |-> [mem |-> "arena", off |-> Len(r.arena), len |-> name.len]]

\* _map.find(name): the entry whose key shows the text; 0 for end().
MapFind(r, text) ==
    IF \E i \in 1..Len(r.map) : Deref(r, r.map[i].key) = text
    THEN CHOOSE i \in 1..Len(r.map) :
            Deref(r, r.map[i].key) = text /\ \A j \in 1..(i - 1) : Deref(r, r.map[j].key) # text
    ELSE 0

\* _map[name] = generator: a key with that text keeps its entry and gets
\* the generator, a new text gets a new entry.
MapPut(r, name, generator) ==
    IF MapFind(r, Deref(r, name)) = 0
    THEN [r EXCEPT !.map = Append(@, [key |-> name, gen |-> generator])]
    ELSE [r EXCEPT !.map[MapFind(r, Deref(r, name))].gen = generator]

\* Generators::assign(name, generator)
assign(r, name, generator) ==
    MapPut([r EXCEPT !.arena = localize(r, name).arena], localize(r, name).view, generator)

\* ContextNames::Binding::operator(): find the name and call its generator
\* with *_ctx, or report the name.  The result tells what was called with what.
ContextBindingCall(r, name) ==
    IF name = <<>> THEN [gen |-> "none", ctx |-> r.ctx]
    ELSE IF MapFind(r, name) # 0
    THEN [gen |-> r.map[MapFind(r, name)].gen, ctx |-> r.ctx]
    ELSE [gen |-> "err_invalid_name", ctx |-> r.ctx]

InitNames ==
    /\ s = <<>>
    /\ tmpl = <<>>
    /\ args = <<>>
    /\ names_map = Registry
    /\ w = [mem |-> <<>>, ext |-> 0]
    /\ fmt = <<>>
    /\ arg_idx = 0
    /\ len = 0
    /\ pc = "idle"
    /\ calls = 0
    /\ prev = <<>>
    /\ n1 = 0
    /\ hist = <<>>
    /\ ip = NoCall
    /\ reg = NewRegistry

\* names.assign(name, generator), the name a view of the first k characters
\* of the caller's buffer.
Assign ==
    /\ Len(reg.log) < MaxAssigns
    /\ reg.buf # <<"?", "?">>
    /\ \E k \in 1..2, g \in GeneratorIds :
          reg' = [assign(reg, [mem |-> "caller", off |-> 0, len |-> k], g)
                     EXCEPT !.log = Append(@, [name |-> Take(reg.buf, k), gen |-> g])]
    /\ UNCHANGED <<s, w, tmpl, args, names_map, fmt, arg_idx, len, pc, calls, prev, n1, hist, ip>>

\* The caller overwrites or frees its name buffer.
Scribble ==
    /\ \E b \in BufContents : b # reg.buf /\ reg' = [reg EXCEPT !.buf = b]
    /\ UNCHANGED <<s, w, tmpl, args, names_map, fmt, arg_idx, len, pc, calls, prev, n1, hist, ip>>

\* names.bind(context): the context goes into the registry's one Binding,
\* and a reference to that Binding is the resolver handed back.
Bind ==
    /\ Len(reg.held) < MaxBinds
    /\ \E c \in ContextIds : reg' = [reg EXCEPT !.ctx = c, !.held = Append(@, c)]
    /\ UNCHANGED <<s, w, tmpl, args, names_map, fmt, arg_idx, len, pc, calls, prev, n1, hist, ip>>

\* A resolver handed out earlier is called for a name.
Resolve ==
    /\ \E i \in 1..Len(reg.held), name \in ResolveNames :
          reg' = [reg EXCEPT !.last = [gen  |-> ContextBindingCall(reg, name).gen,
                                       ctx  |-> ContextBindingCall(reg, name).ctx,
                                       via  |-> i,
                                       name |-> name,
                                       at   |-> Len(reg.log)]]
    /\ UNCHANGED <<s, w, tmpl, args, names_map, fmt, arg_idx, len, pc, calls, prev, n1, hist, ip>>

NextNames == Assign \/ Scribble \/ Bind \/ Resolve

SpecNames == InitNames /\ [][NextNames]_vars

---------------------------------------------------------------------------
\* What the properties below read off a state.

\* The loop iterations of the current render.
Steps == 1..Len(hist)

\* The sink had room for everything up to the end of iteration h.
Fits(h) == h.stop <= Capacity(w)

\* The bytes iteration h put into the sink for its specifier.
Out(h) == SubSeq(w.mem, h.start + 1, h.stop)

\* The scratch writer of iteration h holds all its formatter wrote.
ScratchWhole(h) == h.lw.ext <= Capacity(h.lw)

\* The render has run to the end of the format.
RenderFinished == pc \in {"render1", "render2", "done"} /\ fmt = <<>> /\ hist # <<>>

\* Iteration i did not end the render: what follows it in the format is
\* processed by a later iteration.
Continues(i) == (RenderFinished /\ hist[i].rest # <<>>) => Len(hist) > i

\* Iteration h took its argument from the cursor (no index, no name).
IndexLess(h) == h.found /\ h.valid /\ h.parsed.name = <<>>

\* Iteration h carried an explicit index.
Indexed(h) == h.found /\ h.valid /\ h.parsed.idx >= 0

---------------------------------------------------------------------------
\* C1: in print_nv the k-th specifier without an explicit index renders
\* argument k-1, however many explicitly indexed specifiers precede it (the
\* cursor starts at 0, advances by one per index-less specifier, and an
\* explicit index renders that argument and leaves the cursor alone).
C1_IndexLessTakesKth ==
    \A i \in Steps :
        /\ IndexLess(hist[i]) =>
              hist[i].spec.idx = Cardinality({j \in 1..(i - 1) : IndexLess(hist[j])})
        /\ Indexed(hist[i]) =>
              hist[i].spec.idx = hist[i].parsed.idx /\ hist[i].next = hist[i].cursor

---------------------------------------------------------------------------
\* Iteration h dispatched an index past the arguments.
C2_BadIndex(h) == h.valid /\ h.spec.idx >= Len(args)

\* text is a marker, {~ ... ~}, that shows i and n in decimal.
C2_IsMarkerFor(text, i, n) ==
    /\ Len(text) > 4
    /\ SubSeq(text, 1, 2) = <<"{", "~">>
    /\ SubSeq(text, Len(text) - 1, Len(text)) = <<"~", "}">>
    /\ Contains(text, DecStr(i))
    /\ Contains(text, DecStr(n))

---------------------------------------------------------------------------
\* Iteration h went to the bound resolver: a name and no index.
C3_Named(h) == h.valid /\ h.parsed.name # <<>> /\ h.parsed.idx = NO_IDX

\* What the resolver is to write: the generator's text, or the missing-name marker.
C3_Expected(h) ==
    IF h.parsed.name \in DOMAIN names_map
    THEN names_map[h.parsed.name]
    ELSE <<"{", "~">> \o h.parsed.name \o <<"~", "}">>

\* C3: a named specifier resolved through the bound resolver runs the
\* generator registered under the name when the registry has it, and
\* otherwise writes {~<name>~}; a miss does not end the render.
C3_NameResolution ==
    \A i \in Steps :
        C3_Named(hist[i]) =>
            /\ hist[i].lw.ext = Len(C3_Expected(hist[i]))
            /\ (Fits(hist[i]) /\ hist[i].spec.min = 0 /\ hist[i].spec.max >= hist[i].lw.ext) =>
                   Out(hist[i]) = C3_Expected(hist[i])
            /\ hist[i].next = hist[i].cursor
            /\ Continues(i)

\* A missing name left its marker in the sink, a registered one its
\* generator's text, and the render went on after the miss.
C3_Witness ==
    \E i, j \in Steps :
        /\ C3_Named(hist[i]) /\ hist[i].parsed.name = <<"z", "z">>
        /\ Fits(hist[i]) /\ Out(hist[i]) = <<"{", "~", "z", "z", "~", "}">>
        /\ j > i
        /\ C3_Named(hist[j]) /\ hist[j].parsed.name = <<"n">>
        /\ Fits(hist[j]) /\ Out(hist[j]) = <<"N", "V">>

---------------------------------------------------------------------------
\* Iteration h parsed a specifier whose type character is not a type character.
C4_UnknownType(h) == h.found /\ h.parsed.type = INVALID_TYPE

---------------------------------------------------------------------------
\* What a specifier's formatter rendered: the argument for an index in
\* range, otherwise what the scratch writer holds.
Content(h) ==
    IF 0 <= h.spec.idx /\ h.spec.idx < Len(args) THEN args[h.spec.idx + 1] ELSE View(h.lw)

\* Content(h) is all of what was rendered.
ContentKnown(h) == (0 <= h.spec.idx /\ h.spec.idx < Len(args)) \/ ScratchWhole(h)

\* Content padded to width `min` the way the alignment asks for.
Padded(content, align, fill, min) ==
    LET d == min - Len(content)
    IN  CASE align = "LEFT"   -> content \o Fill(fill, d)
          [] align = "RIGHT"  -> Fill(fill, d) \o content
          [] align = "CENTER" -> Fill(fill, d \div 2) \o content \o Fill(fill, d - (d \div 2))

---------------------------------------------------------------------------
\* Iteration h rendered content shorter than the minimum width, Left, Right or Center.
C5_Case(h) ==
    /\ h.valid
    /\ h.spec.align \in {"LEFT", "RIGHT", "CENTER"}
    /\ ContentKnown(h)
    /\ Len(Content(h)) < h.spec.min
    /\ Fits(h)

\* C5: for a specifier with min_width = min and rendered content of length
\* w < min, every w from 0 to min-1, the output has length at least min and
\* is the content plus min-w fill characters: after it for Left, before it
\* for Right, floor((min-w)/2) before and the rest after for Center.
C5_PadsEveryShortContent ==
    \A i \in Steps :
        C5_Case(hist[i]) =>
            /\ Len(Out(hist[i])) >= hist[i].spec.min
            /\ Out(hist[i]) =
                  Padded(Content(hist[i]), hist[i].spec.align, hist[i].spec.fill, hist[i].spec.min)

\* The same for content that is not empty (w from 1 to min-1), which is
\* what the render loop does: it runs the alignment step only when the
\* scratch writer saw output.
C5_PadsNonEmptyContent ==
    \A i \in Steps :
        (C5_Case(hist[i]) /\ Len(Content(hist[i])) > 0) =>
            /\ Len(Out(hist[i])) >= hist[i].spec.min
            /\ Out(hist[i]) =
                  Padded(Content(hist[i]), hist[i].spec.align, hist[i].spec.fill, hist[i].spec.min)

\* Empty content under a minimum width leaves the sink where it was.
C5_EmptyContentNotPadded ==
    \A i \in Steps :
        (C5_Case(hist[i]) /\ Len(Content(hist[i])) = 0) => hist[i].stop = hist[i].start

---------------------------------------------------------------------------
\* Iteration h rendered sign-aligned content shorter than the minimum width that begins with a sign.
C6_Case(h) ==
    /\ h.valid
    /\ h.spec.align = "SIGN"
    /\ ContentKnown(h)
    /\ Len(Content(h)) > 0
    /\ Len(Content(h)) < h.spec.min
    /\ Content(h)[1] \in {"+", "-"}
    /\ Fits(h)

\* C6: with SignAligned alignment and content shorter than min_width that
\* begins with a sign, the output is the sign, the min-w fill characters,
\* then the rest of the content: -7 with fill 0 and width 4 gives -007.
C6_SignThenFill ==
    \A i \in Steps :
        C6_Case(hist[i]) =>
            LET c == Content(hist[i])
                d == hist[i].spec.min - Len(c)
            IN  /\ Out(hist[i]) = <<c[1]>> \o Fill(hist[i].spec.fill, d) \o Tail(c)
                /\ (c = <<"-", "7">> /\ hist[i].spec.fill = "0" /\ hist[i].spec.min = 4) =>
                       Out(hist[i]) = <<"-", "0", "0", "7">>

\* -7 was rendered sign-aligned with fill 0 in width 4 and the sink holds -007.
C6_Witness ==
    \E i \in Steps :
        /\ C6_Case(hist[i])
        /\ Content(hist[i]) = <<"-", "7">>
        /\ hist[i].spec.fill = "0"
        /\ hist[i].spec.min = 4
        /\ Out(hist[i]) = <<"-", "0", "0", "7">>

---------------------------------------------------------------------------
\* Iteration h rendered content at least as long as the minimum width.
C7_Case(h) ==
    /\ h.valid
    /\ ContentKnown(h)
    /\ Len(Content(h)) >= h.spec.min
    /\ Fits(h)

\* C7: when the rendered content's length w is at least min_width (always so
\* for min_width = 0) the output has no fill and is the content, cut from
\* the end to max_width when it is longer; the cut is no error.
C7_VerbatimOrClipped ==
    \A i \in Steps :
        C7_Case(hist[i]) =>
            /\ Out(hist[i]) = Take(Content(hist[i]), hist[i].spec.max)
            /\ hist[i].stop - hist[i].start = Min2(Len(Content(hist[i])), hist[i].spec.max)
            /\ Continues(i)

\* Content abc met max_width 2, the sink holds ab, and the render went on.
C7_Witness ==
    \E i \in Steps :
        /\ C7_Case(hist[i])
        /\ Content(hist[i]) = <<"a", "b", "c">>
        /\ hist[i].spec.max = 2
        /\ Out(hist[i]) = <<"a", "b">>
        /\ Len(hist) > i

---------------------------------------------------------------------------
\* The text a finished render is to have produced, iteration by iteration:
\* the literal, then the specifier's content as the alignment step leaves it.
ExpectedOut(h) ==
    LET c == Content(h)
    IN  IF ~h.valid \/ Len(c) = 0 THEN <<>>
        ELSE IF Len(c) >= h.spec.min THEN Take(c, h.spec.max)
        ELSE IF h.spec.align \in {"LEFT", "RIGHT", "CENTER"}
        THEN Padded(c, h.spec.align, h.spec.fill, h.spec.min)
        ELSE IF h.spec.align = "SIGN" /\ c[1] \in {"+", "-"}
        THEN <<c[1]>> \o Fill(h.spec.fill, h.spec.min - Len(c)) \o Tail(c)
        ELSE IF h.spec.align = "SIGN"
        THEN Fill(h.spec.fill, h.spec.min - Len(c)) \o c
        ELSE c \o Fill(h.spec.fill, h.spec.min - Len(c))

RECURSIVE ExpectedText(_)
ExpectedText(k) ==
    IF k = 0 THEN <<>> ELSE ExpectedText(k - 1) \o hist[k].lit \o ExpectedOut(hist[k])

---------------------------------------------------------------------------
\* C8: bwprintv renders once into s at its current size and, when the
\* extent is larger, grows s to the extent and renders again.  On return,
\* whatever s was, s is as long as the extent and holds the whole rendered
\* output; a second call with the same format and arguments leaves s as is.
C8_GrowAndRetry ==
    /\ pc = "render2" => (n1 > len /\ Capacity(w) = n1)
    /\ pc = "done" =>
          /\ Len(s) = n1
          /\ w.ext = n1
          /\ s = View(w)
          /\ \A i \in 1..Len(s) : s[i] \notin {"?", NulChar}
          /\ s = ExpectedText(Len(hist))
    /\ (pc = "done" /\ calls = 2) => s = prev

\* bwprintv returned a second time, s was grown from nothing by the first
\* call and is unchanged by the second.
C8_Witness ==
    /\ pc = "done"
    /\ calls = 2
    /\ Len(s) > MaxSize
    /\ s = prev
    /\ \E i \in Steps : hist[i].valid /\ hist[i].spec.min > Len(Content(hist[i]))

---------------------------------------------------------------------------
\* C9: the extent a render adds to the sink is the same for every remaining
\* capacity, 0 included, as for a sink that holds the whole output, although
\* each specifier is rendered into a scratch of min(remaining, max_width).
C9_ExtentIgnoresCapacity ==
    /\ pc = "render2" => w.ext <= n1
    /\ (pc \in {"render2", "done"} /\ fmt = <<>>) => w.ext = n1

\* A render into no room at all and the render into a sink of the full
\* size reported the same extent, with a clipped and a padded specifier.
C9_Witness ==
    /\ pc = "render2"
    /\ fmt = <<>>
    /\ len = 0
    /\ n1 > 0
    /\ w.ext = n1
    /\ \E i \in Steps : hist[i].valid /\ hist[i].spec.max < Len(Content(hist[i]))
    /\ \E i \in Steps : hist[i].valid /\ hist[i].lw.ext > 0 /\ hist[i].spec.min > hist[i].lw.ext

---------------------------------------------------------------------------

RECURSIVE EscapedOnly(_)
\* Every brace of t is one of a doubled pair.
EscapedOnly(t) ==
    IF t = <<>> THEN TRUE
    ELSE IF t[1] \notin {"{", "}"} THEN EscapedOnly(Tail(t))
    ELSE Len(t) >= 2 /\ t[2] = t[1] /\ EscapedOnly(Drop(t, 2))

RECURSIVE Unescape(_)
\* t with each doubled brace replaced by a single one.
Unescape(t) ==
    IF t = <<>> THEN <<>>
    ELSE IF t[1] \in {"{", "}"} /\ Len(t) >= 2 /\ t[2] = t[1]
    THEN <<t[1]>> \o Unescape(Drop(t, 2))
    ELSE <<t[1]>> \o Unescape(Tail(t))

\* C10: for a format with no placeholder the output is the format with
\* each {{ replaced by { and each }} by }, and the escaped braces never
\* reach specifier parsing.
C10_EscapedBracesAreLiterals ==
    EscapedOnly(tmpl) =>
        /\ \A i \in Steps : ~hist[i].found /\ ~hist[i].valid
        /\ pc \in {"render1", "render2"} => View(w) = Take(Unescape(tmpl), Len(View(w)))
        /\ pc = "done" => s = Unescape(tmpl)

\* A format that opens with {{ and closes with }} came out with single braces.
C10_Witness ==
    /\ pc = "done"
    /\ \E t \in Templates : tmpl = <<"{", "{">> \o t \o <<"}", "}">> /\ EscapedOnly(t) /\ s = <<"{">> \o Unescape(t) \o <<"}">>
    /\ Len(hist) >= 1

---------------------------------------------------------------------------
\* The format text the tokenizer was handed in iteration i.
StepInput(i) == IF i = 1 THEN tmpl ELSE hist[i - 1].rest

\* Position p of t holds an opening brace that is not escaped and is never
\* closed, and everything before it is plain text.
C11_Unbalanced(t, p) ==
    /\ t[p] = "{"
    /\ EscapedOnly(SubSeq(t, 1, p - 1))
    /\ p = Len(t) \/ t[p + 1] # "{"
    /\ \A q \in (p + 1)..Len(t) : t[q] # "}"

\* C11: the tokenizer never fails on malformed input.  An unbalanced { gives
\* the text from that brace to the end of the input as literal text; found
\* is false only when the format is exhausted by the call; an empty
\* specifier {} gives found = true.
C11_TokenizerNeverFails ==
    /\ \A i \in Steps :
          /\ StepInput(i) # <<>>
          /\ ~hist[i].found => hist[i].rest = <<>>
          /\ \A p \in 1..Len(StepInput(i)) :
                C11_Unbalanced(StepInput(i), p) =>
                    /\ ~hist[i].found
                    /\ hist[i].rest = <<>>
                    /\ hist[i].lit = Unescape(SubSeq(StepInput(i), 1, p - 1))
                                        \o SubSeq(StepInput(i), p, Len(StepInput(i)))
                    /\ hist[i].start = hist[i].from + Len(hist[i].lit)
          /\ (Len(StepInput(i)) >= 2 /\ SubSeq(StepInput(i), 1, 2) = <<"{", "}">>) =>
                /\ hist[i].found
                /\ hist[i].lit = <<>>
                /\ hist[i].parsed = DefaultSpec
    /\ pc = "done" => fmt = <<>>

\* An empty specifier was found, then an opening brace with text after it and
\* no closing brace came out as literal text, and bwprintv returned.
C11_Witness ==
    /\ pc = "done"
    /\ \E i, j \in Steps :
          /\ hist[i].found /\ hist[i].parsed = DefaultSpec
          /\ j > i
          /\ C11_Unbalanced(StepInput(j), 1)
          /\ ~hist[j].found
          /\ hist[j].lit = <<"{">>
          /\ s[Len(s)] = "{"

---------------------------------------------------------------------------
\* The format {0} for the format {}, and the other way round.
C12_Other(t) == IF t = <<"{", "}">> THEN <<"{", "0", "}">> ELSE <<"{", "}">>

\* The render at hand is of {0} or of {} with a single argument.
C12_Case == tmpl \in {<<"{", "}">>, <<"{", "0", "}">>} /\ Len(args) = 1

\* C12: with a single argument x, rendering {0} gives the same output (and
\* the same extent) as rendering {}: as bwprintv returns it, and for the
\* first render into a sink of any capacity.
C12_ZeroIsNext ==
    C12_Case =>
        /\ pc = "done" =>
              /\ s = View(print_nv([mem |-> s, ext |-> 0], 0, C12_Other(tmpl), args, names_map))
              /\ Len(s) = print_nv([mem |-> s, ext |-> 0], 0, C12_Other(tmpl), args, names_map).ext
              /\ s = args[1]
        /\ (pc = "render1" /\ calls = 0 /\ fmt = <<>> /\ hist # <<>>) =>
              /\ w = print_nv([mem |-> Fill("?", len), ext |-> 0], 0, C12_Other(tmpl), args, names_map)

\* bwprintv returned the single argument for {0}, and it is what {} gives.
C12_Witness ==
    /\ C12_Case
    /\ tmpl = <<"{", "0", "}">>
    /\ pc = "done"
    /\ s = <<"a", "b", "c">>
    /\ s = View(print_nv([mem |-> s, ext |-> 0], 0, <<"{", "}">>, args, names_map))

---------------------------------------------------------------------------
\* The text of the output of the last address formatter call.
IPOut == View(ip.out)

RECURSIVE ZeroRunLen(_, _)
\* The number of zero groups of addr in a row from group i on.
ZeroRunLen(addr, i) ==
    IF i > Len(addr) \/ addr[i] # 0 THEN 0 ELSE 1 + ZeroRunLen(addr, i + 1)

\* The groups at which a run of zero groups begins.
RunStarts(addr) == {i \in 1..Len(addr) : addr[i] = 0 /\ (i = 1 \/ addr[i - 1] # 0)}

\* Where the leftmost longest run of at least `least` zero groups begins; 0 if there is none.
BestRun(addr, least) ==
    IF \E i \in RunStarts(addr) : ZeroRunLen(addr, i) >= least
    THEN CHOOSE i \in RunStarts(addr) :
            /\ ZeroRunLen(addr, i) >= least
            /\ \A j \in RunStarts(addr) :
                  \/ ZeroRunLen(addr, j) < ZeroRunLen(addr, i)
                  \/ (ZeroRunLen(addr, j) = ZeroRunLen(addr, i) /\ j >= i)
    ELSE 0

RECURSIVE JoinGroups(_, _, _, _)
\* Groups from..to of addr in hex with colons between them.
JoinGroups(addr, from, to, digits) ==
    IF from > to THEN <<>>
    ELSE RadixStr(addr[from], 16, digits)
            \o (IF from < to THEN <<":">> ELSE <<>>)
            \o JoinGroups(addr, from + 1, to, digits)

\* The address with its leftmost longest run of at least `least` zero groups
\* as "::" and every other group in hex.
Compressed(addr, least, digits) ==
    IF BestRun(addr, least) = 0 THEN JoinGroups(addr, 1, Len(addr), digits)
    ELSE JoinGroups(addr, 1, BestRun(addr, least) - 1, digits)
            \o <<":", ":">>
            \o JoinGroups(addr, BestRun(addr, least) + ZeroRunLen(addr, BestRun(addr, least)),
                          Len(addr), digits)

\* The last call rendered a 16-byte address without the "=" extension, in hex.
C13_Case == ip.kind = "ip6" /\ ~AlignRequested(ip.spec) /\ ip.spec.type \in {"g", "x", "X"}

\* The hex digits the type character asks for.
C13_Digits == IF ip.spec.type = "X" THEN UpperDigits ELSE LowerDigits

---------------------------------------------------------------------------
\* The last call rendered a 16-byte address with the "=" or "<fill>=" extension.
C14_Case == ip.kind = "ip6" /\ AlignRequested(ip.spec)

\* The pad character the extension names.
C14_Pad == IF ip.spec.ext[1] = "=" THEN "0" ELSE ip.spec.ext[1]

RECURSIVE PaddedGroups(_, _, _, _)
\* Groups from `from` on in hex, each padded on the left to width 4, colons between.
PaddedGroups(addr, from, pad, digits) ==
    IF from > Len(addr) THEN <<>>
    ELSE Fill(pad, 4 - Len(RadixStr(addr[from], 16, digits)))
            \o RadixStr(addr[from], 16, digits)
            \o (IF from < Len(addr) THEN <<":">> ELSE <<>>)
            \o PaddedGroups(addr, from + 1, pad, digits)

\* C14: with the fixed-alignment form of the extension a 16-byte address is
\* not zero-compressed: all 8 groups are written, each right-aligned and
\* padded to width 4 with 0 or the given fill character, with single colons
\* between them and no "::".
C14_FixedWidthGroups ==
    C14_Case =>
        /\ ~Contains(IPOut, <<":", ":">>)
        /\ Cardinality({i \in 1..Len(IPOut) : IPOut[i] = ":"}) = QuadCount - 1
        /\ IPOut[1] # ":" /\ IPOut[Len(IPOut)] # ":"
        /\ ip.spec.type \in {"g", "x", "X"} =>
              /\ IPOut = PaddedGroups(ip.val, 1, C14_Pad, C13_Digits)
              /\ Len(IPOut) = 5 * QuadCount - 1

\* 2001:0:0:0:0:0:0:1 under "=" came out with all its groups, zero-padded.
C14_Witness ==
    /\ C14_Case
    /\ ip.spec.ext = <<"=">>
    /\ ip.spec.type = "g"
    /\ ip.val = <<8193, 0, 0, 0, 0, 0, 0, 1>>
    /\ IPOut = <<"2", "0", "0", "1", ":", "0", "0", "0", "0", ":", "0", "0", "0", "0", ":",
                 "0", "0", "0", "0", ":", "0", "0", "0", "0", ":", "0", "0", "0", "0", ":",
                 "0", "0", "0", "0", ":", "0", "0", "0", "1">>

---------------------------------------------------------------------------
\* The last call rendered a 4-octet address with a decimal type.
C15_Case == ip.kind = "ip4" /\ ip.spec.type \in {"g", "d"}

\* An octet in decimal, padded on the left to width 3 when a pad character is given.
C15_Octet(k, padded, pad) ==
    IF padded THEN Fill(pad, 3 - Len(DecStr(k))) \o DecStr(k) ELSE DecStr(k)

\* The four octets, first to last, with dots between.
C15_Dotted(octets, padded, pad) ==
    C15_Octet(octets[1], padded, pad) \o <<".">> \o C15_Octet(octets[2], padded, pad) \o <<".">>
        \o C15_Octet(octets[3], padded, pad) \o <<".">> \o C15_Octet(octets[4], padded, pad)

---------------------------------------------------------------------------
\* The last call rendered a socket address with the default type.
C16_Case == ip.kind = "sockaddr" /\ ip.spec.type = "g"

\* The length of the "=" or "<fill>=" prefix of the extension.
C16_PrefixLen ==
    IF Len(ip.spec.ext) >= 1 /\ ip.spec.ext[1] = "=" THEN 1
    ELSE IF Len(ip.spec.ext) >= 2 /\ ip.spec.ext[2] = "=" THEN 2
    ELSE 0

\* The pad character of the prefix.
C16_Pad == IF C16_PrefixLen = 1 THEN "0" ELSE ip.spec.ext[1]

\* The flag characters, lower-cased, as a set.
C16_FlagSet ==
    {c \in {"a", "p", "f"} :
        \E i \in (C16_PrefixLen + 1)..Len(ip.spec.ext) :
            \/ ip.spec.ext[i] = c
            \/ (c = "a" /\ ip.spec.ext[i] = "A")
            \/ (c = "p" /\ ip.spec.ext[i] = "P")
            \/ (c = "f" /\ ip.spec.ext[i] = "F")}

\* The sub-parts to emit: address and port when there is no flag character.
C16_Parts == IF Len(ip.spec.ext) = C16_PrefixLen THEN {"a", "p"} ELSE C16_FlagSet

\* The address of the endpoint as text.
C16_AddrText ==
    CASE ip.val.family = "AF_INET" -> C15_Dotted(ip.val.ip4, C16_PrefixLen > 0, C16_Pad)
      [] ip.val.family = "AF_INET6" ->
            IF C16_PrefixLen > 0 THEN PaddedGroups(ip.val.ip6, 1, C16_Pad, LowerDigits)
            ELSE Compressed(ip.val.ip6, 2, LowerDigits)
      [] OTHER -> <<"*", "N", "o", "t", " ", "I", "P", " ", "a", "d", "d", "r", "e", "s", "s", " ", "[">>
                     \o DecStr(FamilyTag(ip.val.family)) \o <<"]", "*">>

\* The port of the endpoint as text.
C16_PortText ==
    IF C16_PrefixLen > 0
    THEN Fill(C16_Pad, 5 - Len(DecStr(ip.val.port))) \o DecStr(ip.val.port)
    ELSE DecStr(ip.val.port)

\* The address sub-part: in brackets for IPv6 before a port, a colon before the port.
C16_AddrPart ==
    IF "a" \notin C16_Parts THEN <<>>
    ELSE (IF ip.val.family = "AF_INET6" /\ "p" \in C16_Parts THEN <<"[">> ELSE <<>>)
            \o C16_AddrText
            \o (IF ip.val.family = "AF_INET6" /\ "p" \in C16_Parts THEN <<"]">> ELSE <<>>)
            \o (IF "p" \in C16_Parts THEN <<":">> ELSE <<>>)

C16_PortPart == IF "p" \in C16_Parts THEN C16_PortText ELSE <<>>

C16_FamilyPart ==
    IF "f" \notin C16_Parts THEN <<>>
    ELSE (IF C16_Parts # {"f"} THEN <<" ">> ELSE <<>>) \o family_name(ip.val.family)

\* C16: the extension of a socket address specifier, after an optional "="
\* or "<fill>=" prefix, is a set of flags a, p, f.  With no flag character
\* the output is address and port; otherwise it is exactly the sub-parts
\* flagged, in the order address, port, family, whatever the order of the
\* flag characters.
C16_FlagsSelectParts ==
    /\ C16_Case => IPOut = C16_AddrPart \o C16_PortPart \o C16_FamilyPart
    /\ (ip.kind = "sockaddr" /\ ip.spec.ext = <<"f", "p", "a">>) =>
          IPOut = View(bwformat_sockaddr(EmptySink, [ip.spec EXCEPT !.ext = <<"a", "p", "f">>], ip.val))

\* The flags f, p, a in that order gave address, port and family in theirs.
C16_Witness ==
    /\ C16_Case
    /\ ip.spec.ext = <<"f", "p", "a">>
    /\ ip.val.family = "AF_INET"
    /\ ip.val.ip4 = <<192, 0, 2, 1>>
    /\ ip.val.port = 80
    /\ IPOut = <<"1", "9", "2", ".", "0", ".", "2", ".", "1", ":", "8", "0", " ", "i", "p", "v", "4">>

---------------------------------------------------------------------------
\* C17: in the output for a socket address the address is in [ ] exactly
\* when the family is IPv6 and the port is emitted too, and address and port,
\* when both are emitted, have a single colon between them: with flags ap,
\* 192.0.2.1 port 80 is 192.0.2.1:80 and 2001:db8::1 port 80 is [2001:db8::1]:80.
C17_BracketsWithPort ==
    C16_Case =>
        /\ (Len(IPOut) > 0 /\ IPOut[1] = "[") <=>
              (ip.val.family = "AF_INET6" /\ {"a", "p"} \subseteq C16_Parts)
        /\ ({"a", "p"} \subseteq C16_Parts /\ "f" \notin C16_Parts) =>
              IPOut = (IF ip.val.family = "AF_INET6"
                       THEN <<"[">> \o C16_AddrText \o <<"]">>
                       ELSE C16_AddrText) \o <<":">> \o C16_PortText
        /\ ("a" \in C16_Parts /\ "p" \notin C16_Parts /\ ip.val.family = "AF_INET6") =>
              ~Contains(IPOut, <<"[">>) /\ ~Contains(IPOut, <<"]">>)
        /\ (ip.spec.ext = <<"a", "p">> /\ ip.val.family = "AF_INET"
               /\ ip.val.ip4 = <<192, 0, 2, 1>> /\ ip.val.port = 80) =>
              IPOut = <<"1", "9", "2", ".", "0", ".", "2", ".", "1", ":", "8", "0">>
        /\ (ip.spec.ext = <<"a", "p">> /\ ip.val.family = "AF_INET6"
               /\ ip.val.ip6 = <<8193, 3512, 0, 0, 0, 0, 0, 1>> /\ ip.val.port = 80) =>
              IPOut = <<"[", "2", "0", "0", "1", ":", "d", "b", "8", ":", ":", "1", "]", ":", "8", "0">>

\* 2001:db8::1 port 80 with flags ap came out as [2001:db8::1]:80.
C17_Witness ==
    /\ C16_Case
    /\ ip.spec.ext = <<"a", "p">>
    /\ ip.val.family = "AF_INET6"
    /\ ip.val.ip6 = <<8193, 3512, 0, 0, 0, 0, 0, 1>>
    /\ ip.val.port = 80
    /\ IPOut = <<"[", "2", "0", "0", "1", ":", "d", "b", "8", ":", ":", "1", "]", ":", "8", "0">>

---------------------------------------------------------------------------
\* Text t ends with suf.
EndsWith(t, suf) == Len(t) >= Len(suf) /\ SubSeq(t, Len(t) - Len(suf) + 1, Len(t)) = suf

\* The last call emitted the family sub-part for a family the formatters do not know.
C18_Case ==
    /\ ip.kind \in {"sockaddr", "ipaddr"}
    /\ "f" \in C16_FlagSet
    /\ ip.val.family \notin {"AF_INET", "AF_INET6", "AF_UNIX", "AF_UNSPEC"}

\* The numeric tag of the family in the radix of the type.
C18_Tag ==
    IF ip.spec.type = "x" THEN RadixStr(FamilyTag(ip.val.family), 16, LowerDigits)
    ELSE DecStr(FamilyTag(ip.val.family))

---------------------------------------------------------------------------
\* The last resolver call ran a generator.
GeneratorRan == reg.last.gen \in GeneratorIds

\* C19: the resolver that bind(c) returned hands c to every generator it
\* runs, for every interleaving of bind and resolver calls on the registry,
\* a second bind with another context before the first resolver's use
\* included.
C19_ResolverKeepsItsContext ==
    GeneratorRan => reg.last.ctx = reg.held[reg.last.via]

---------------------------------------------------------------------------
\* The names assigned so far.
AssignedNames(log) == {log[i].name : i \in 1..Len(log)}

\* The generator of the most recent assign of a name.
LatestGenerator(log, name) ==
    log[CHOOSE i \in 1..Len(log) :
            log[i].name = name /\ \A j \in (i + 1)..Len(log) : log[j].name # name].gen

\* C20: after any sequence of assign calls, the map finds for a name the
\* generator of the most recent assign of that name and nothing for other
\* names; every key of the map is a span of the registry's arena that holds
\* the name; and so a caller that overwrites or frees its name buffer after
\* assign returned changes no lookup.
C20_AssignKeepsOwnCopy ==
    /\ \A i \in 1..Len(reg.map) :
          /\ reg.map[i].key.mem = "arena"
          /\ reg.map[i].key.off + reg.map[i].key.len <= Len(reg.arena)
          /\ Deref(reg, reg.map[i].key) \in AssignedNames(reg.log)
          /\ \A j \in 1..Len(reg.map) :
                Deref(reg, reg.map[j].key) = Deref(reg, reg.map[i].key) => j = i
    /\ \A name \in AssignedNames(reg.log) :
          /\ MapFind(reg, name) # 0
          /\ reg.map[MapFind(reg, name)].gen = LatestGenerator(reg.log, name)
    /\ \A name \in ResolveNames \ AssignedNames(reg.log) : MapFind(reg, name) = 0
    /\ reg.last.gen # "none" =>
          reg.last.gen =
              IF reg.last.name \in AssignedNames(Take(reg.log, reg.last.at))
              THEN LatestGenerator(Take(reg.log, reg.last.at), reg.last.name)
              ELSE "err_invalid_name"

\* A name was assigned twice, the caller's buffer then overwritten, and the
\* resolver ran the generator of the second assign.
C20_Witness ==
    /\ Len(reg.log) = 2
    /\ reg.log[1].name = <<"a", "b">> /\ reg.log[1].gen = "g1"
    /\ reg.log[2].name = <<"a", "b">> /\ reg.log[2].gen = "g2"
    /\ reg.buf = <<"?", "?">>
    /\ reg.last.gen = "g2"
    /\ reg.last.name = <<"a", "b">>
    /\ reg.last.at = 2
    /\ Len(reg.map) = 1

---------------------------------------------------------------------------
\* What positional dispatch renders for index k: the argument, or the
\* diagnostic for an index past the arguments.
C21_PositionalText(k) ==
    IF k < Len(args) THEN args[k + 1]
    ELSE <<"{", "~", "B", "A", "D", " ", "I", "N", "D", "E", "X", " ">> \o DecStr(k)
            \o <<" ", "o", "f", " ">> \o DecStr(Len(args)) \o <<"~", "}">>

\* Iteration h is for positional dispatch: no name, or an index.
C21_ByPosition(h) == h.valid /\ (h.parsed.name = <<>> \/ h.parsed.idx >= 0)

\* Iteration h is for the name resolver: a name and no index.
C21_ByName(h) == h.valid /\ h.parsed.name # <<>> /\ h.parsed.idx = NO_IDX

\* C21: in print_nv a specifier with a valid type is resolved by exactly
\* one mechanism: by position (the formatter of the argument, or the bad
\* index diagnostic) when its name is empty or its index is not negative,
\* and by the bound name resolver only when it has a name and no index; a
\* specifier resolved by name takes no argument and leaves the cursor.
C21_OneMechanism ==
    \A i \in Steps :
        hist[i].valid =>
            /\ C21_ByPosition(hist[i]) # C21_ByName(hist[i])
            /\ C21_ByPosition(hist[i]) =>
                  /\ hist[i].spec.idx >= 0
                  /\ hist[i].lw.ext = Len(C21_PositionalText(hist[i].spec.idx))
                  /\ ScratchWhole(hist[i]) => View(hist[i].lw) = C21_PositionalText(hist[i].spec.idx)
            /\ C21_ByName(hist[i]) =>
                  /\ hist[i].spec.idx = NO_IDX
                  /\ hist[i].lw.ext = Len(C3_Expected(hist[i]))
                  /\ ScratchWhole(hist[i]) => View(hist[i].lw) = C3_Expected(hist[i])
                  /\ hist[i].next = hist[i].cursor

\* A specifier by name was resolved by the registry and left the cursor at
\* 0, and the specifier {1} after it rendered argument 1.
C21_Witness ==
    \E i \in Steps :
        /\ C21_ByName(hist[i])
        /\ hist[i].parsed.name = <<"n">>
        /\ ScratchWhole(hist[i]) /\ View(hist[i].lw) = <<"N", "V">>
        /\ hist[i].cursor = 0 /\ hist[i].next = 0
        /\ Len(hist) > i
        /\ C21_ByPosition(hist[i + 1])
        /\ hist[i + 1].parsed.name = <<"1">>
        /\ Len(args) = 2
        /\ ScratchWhole(hist[i + 1]) /\ View(hist[i + 1].lw) = args[2]

---------------------------------------------------------------------------
\* The first render of the call is over: print_nv went through the format.
C22_Rendered == pc = "render1" /\ fmt = <<>> /\ hist # <<>>

\* What printv leaves in the same sink for the same format and arguments.
C22_Compiled == printv([mem |-> prev, ext |-> 0], Compile(tmpl, 0, names_map), args, names_map)

\* C22: rendering through the precompiled format (printv over the compiled
\* items) gives the same output and the same logical extent as print_nv
\* over the format string, for every format and every argument list.
C22_CompiledRendersAlike ==
    C22_Rendered => /\ w.ext = C22_Compiled.ext
                    /\ View(w) = View(C22_Compiled)

---------------------------------------------------------------------------
RECURSIVE ColonFields(_)
\* The fields of a text between its colons; a text with k colons has k + 1.
ColonFields(t) ==
    IF \A i \in 1..Len(t) : t[i] # ":" THEN <<t>>
    ELSE <<Take(t, FindFrom(t, {":"}, 1) - 1)>> \o ColonFields(Drop(t, FindFrom(t, {":"}, 1)))

\* The value of a digit character, -1 for any other character.
DigitOf(c) ==
    IF \E i \in 1..16 : LowerDigits[i] = c \/ UpperDigits[i] = c
    THEN (CHOOSE i \in 1..16 : LowerDigits[i] = c \/ UpperDigits[i] = c) - 1
    ELSE -1

RECURSIVE GroupValue(_, _)
\* The number a field reads as in the base; -1 when it is empty or no number.
GroupValue(field, base) ==
    IF field = <<>> THEN -1
    ELSE IF DigitOf(field[Len(field)]) < 0 \/ DigitOf(field[Len(field)]) >= base THEN -1
    ELSE IF Len(field) = 1 THEN DigitOf(field[1])
    ELSE IF GroupValue(Take(field, Len(field) - 1), base) < 0 THEN -1
    ELSE GroupValue(Take(field, Len(field) - 1), base) * base + DigitOf(field[Len(field)])

\* The groups a text of colon separated numbers reads as; none for no text.
GroupValues(t, base) ==
    IF t = <<>> THEN <<>>
    ELSE [i \in 1..Len(ColonFields(t)) |-> GroupValue(ColonFields(t)[i], base)]

\* Where the text has two colons in a row.
DoubleColons(t) == {i \in 1..(Len(t) - 1) : t[i] = ":" /\ t[i + 1] = ":"}

\* The text read back as an address: the groups before and after the "::"
\* with zero groups between them to make eight, or the groups as they are.
Expanded(t, base) ==
    IF DoubleColons(t) = {} THEN GroupValues(t, base)
    ELSE LET p     == CHOOSE i \in DoubleColons(t) : \A j \in DoubleColons(t) : i <= j
             left  == GroupValues(Take(t, p - 1), base)
             right == GroupValues(Drop(t, p + 1), base)
         IN  left \o [i \in 1..(QuadCount - Len(left) - Len(right)) |-> 0] \o right

\* The last call rendered a 16-byte address without the "=" extension.
C23_Case == ip.kind = "ip6" /\ ~AlignRequested(ip.spec)

\* The base the groups are written in.
C23_Base == IF ip.spec.type = "d" THEN 10 ELSE 16

\* C23: a 16-byte address rendered without the "=" extension has at most
\* one "::", no other empty group and no single ":" at either end, and
\* reading the text back with the "::" expanded to zero groups gives the
\* eight groups of the address in order.
C23_ReadsBack ==
    C23_Case =>
        /\ Cardinality(DoubleColons(IPOut)) <= 1
        /\ IPOut # <<>>
        /\ IPOut[1] = ":" => 1 \in DoubleColons(IPOut)
        /\ IPOut[Len(IPOut)] = ":" => (Len(IPOut) - 1) \in DoubleColons(IPOut)
        /\ \A i \in 1..Len(Expanded(IPOut, C23_Base)) : Expanded(IPOut, C23_Base)[i] >= 0
        /\ Expanded(IPOut, C23_Base) = ip.val

\* An address that begins with a run of zero groups and has a lone zero
\* group later was rendered with a leading "::" and read back.
C23_Witness ==
    /\ C23_Case
    /\ ip.val = <<0, 0, 3512, 0, 3512, 3512, 3512, 3512>>
    /\ ip.spec.type = "d"
    /\ IPOut = <<":", ":", "3", "5", "1", "2", ":", "0", ":", "3", "5", "1", "2", ":",
                 "3", "5", "1", "2", ":", "3", "5", "1", "2", ":", "3", "5", "1", "2">>
    /\ Expanded(IPOut, 10) = ip.val

---------------------------------------------------------------------------
\* The magnitude of a value.
Abs(i) == IF i < 0 THEN -i ELSE i

\* C24: for every signed integer type and every value i of it, the least
\* value included, the signed integer formatter hands Format_Integer the
\* magnitude of i as an unsigned value and the flag negative = (i < 0); the
\* negation of a negative value never overflows or wraps.
C24_PassesMagnitude ==
    ip.kind = "signed" =>
        /\ ~ip.call.trapped
        /\ ip.call.n = Abs(ip.val.i)
        /\ ip.call.neg = (ip.val.i < 0)

====
